---- MODULE Spec2Model ----
(***************************************************************************)
(* A model of src/background_workers.c: the registry of per-device run     *)
(* queues (ensureRunQueue, freeRunQueueInfo, strToUpper) and the worker    *)
(* loop RedisAI_Run_ThreadMain that drains a device queue.                  *)
(*                                                                         *)
(* The DAG inspection interface, the execution interface, the queue and    *)
(* the command layer that enqueues are not part of the file; they are      *)
(* modelled from their description in the design document.                 *)
(***************************************************************************)
EXTENDS Integers, Sequences, FiniteSets, TLC

\* ------------------------------------------------------------------ bounds
MaxDags == 3
MaxThreads == 2
MaxBatch == 2
MaxDevLen == 2
MaxCalls == 3
MaxCallers == 2
MaxCopies == 1

\* ------------------------------------------------------------------ values
Dev == {"CPU", "GPU"}
DevSeq == <<"CPU", "GPU">>
DagId == 1..MaxDags
NoOne == <<"none", 0>>
Worker == Dev \X (1..MaxThreads)

\* One operation of a DAG: its device, its model ("" when it is not a model
\* run), its size along the batch dimension, whether it reads the result of
\* the operation before it.
Op(dev, model, size, dep) == [dev |-> dev, model |-> model, size |-> size, dep |-> dep]

TModel1 == << Op("CPU", "M", 1, FALSE) >>
TModel2 == << Op("CPU", "M", 2, FALSE) >>
TModel0 == << Op("CPU", "M", 0, FALSE) >>
TOther == << Op("CPU", "N", 1, FALSE) >>
TScript == << Op("CPU", "", 0, FALSE) >>
TChain == << Op("CPU", "M", 1, FALSE), Op("CPU", "M", 1, TRUE) >>
TTwoDev == << Op("CPU", "", 0, FALSE), Op("GPU", "", 0, TRUE) >>
TIndep == << Op("CPU", "M", 1, FALSE), Op("GPU", "", 0, FALSE) >>
TWaitGpu == << Op("GPU", "", 0, FALSE), Op("CPU", "M", 1, TRUE) >>

VARIABLES
  perqueueThreadPoolSize,  \* workers per queue
  batchsize,               \* B_target of the models
  minbatchsize,            \* B_min of the models
  dagOps,                  \* DagId -> the DAG's operations
  enq,                     \* DagId -> devices it has been enqueued on
  opsDone,                 \* DagId -> operations that have a result
  dagError,                \* DagId -> *rinfo->dagError
  dagRefCount,             \* DagId -> *rinfo->dagRefCount
  client,                  \* DagId -> rinfo->client is bound
  run_queue,               \* Dev -> the queue, front first
  run_queue_mutex,         \* Dev -> the thread that owns the mutex
  wpc,                     \* Worker -> where the thread is
  wloc,                    \* Worker -> evicted_items and the pass's flags
  unblocked,               \* DagId -> UnblockClient calls so far
  retired,                 \* DagId -> devices whose worker freed its item
  released,                \* DagId -> devices whose reference was given up
  dictCreated,             \* run_queues != NULL
  run_queues,              \* the registry: a set of [key, info] entries
  infos,                   \* the RunQueueInfo records allocated so far
  cpc,                     \* Caller -> where it is in ensureRunQueue
  cloc,                    \* Caller -> devicestr, devicestr_ and *run_queue_info
  log                      \* the calls that returned, in order

sched == << perqueueThreadPoolSize, batchsize, minbatchsize, dagOps, enq,
            opsDone, dagError, dagRefCount, client, run_queue,
            run_queue_mutex, wpc, wloc, unblocked, retired, released >>

reg == << dictCreated, run_queues, infos, cpc, cloc, log >>

vars == << sched, reg >>

\* ------------------------------------------------ DAG inspection interface
DagDevices(d) == {dagOps[d][i].dev : i \in 1..Len(dagOps[d])}

Min(S) == CHOOSE x \in S : \A y \in S : x <= y

\* RedisAI_DagCurrentOpAndInfo(rinfo, devicestr, ...): the first operation of
\* the device without a result (0 when there is none) and the four flags.
RedisAI_DagCurrentOpAndInfo(d, dev) ==
  LET all == 1..Len(dagOps[d])
      pending == {i \in all : dagOps[d][i].dev = dev /\ i \notin opsDone[d]}
      cur == IF pending = {} THEN 0 ELSE Min(pending)
  IN [ dag |-> d,
       currentOp |-> cur,
       dagComplete |-> opsDone[d] = all,
       deviceComplete |-> pending = {},
       currentOpReady |-> cur # 0 /\ (dagOps[d][cur].dep => (cur - 1) \in opsDone[d]),
       currentOpBatchable |-> cur # 0 /\ dagOps[d][cur].model # "" /\ batchsize > 0,
       model |-> IF cur = 0 THEN "" ELSE dagOps[d][cur].model,
       inbatchsize |-> IF cur = 0 THEN 0 ELSE dagOps[d][cur].size ]

\* RedisAI_DagOpBatchingMatch: the two operations run the same model and the
\* second has a positive batch dimension.
RedisAI_DagOpBatchingMatch(c, n) == c.model = n.model /\ n.inbatchsize > 0

\* The inspection results of every item of a queue, front first.
QueueInfo(dev) ==
  [i \in 1..Len(run_queue[dev]) |-> RedisAI_DagCurrentOpAndInfo(run_queue[dev][i], dev)]

\* -------------------------------------------------------------- the scan
\* Line 227: the head alone already fills (or cannot start) a batch.
StopSearching(current_batchsize, bs) == current_batchsize = 0 \/ current_batchsize >= bs

\* A scan that lets every candidate in.
WouldExceed_Never(current_batchsize, next_batchsize, bs) == FALSE

\* Line 270: the candidate would take the batch past batchsize.
WouldExceed(current_batchsize, next_batchsize, bs) == current_batchsize + next_batchsize > bs

\* Line 289: the batch may run.
MinReached(current_batchsize, minbs) == minbs = 0 \/ current_batchsize >= minbs

\* Lines 235-283: the walk down the queue from position j, collecting the
\* items that batch with the one at position head.
RECURSIVE BatchScan(_, _, _, _, _)
BatchScan(items, head, j, current_batchsize, evicted) ==
  IF j > Len(items) THEN [evicted |-> evicted, current_batchsize |-> current_batchsize]
  ELSE LET n == items[j] IN
    IF ~n.currentOpReady \/ ~n.currentOpBatchable
      THEN BatchScan(items, head, j + 1, current_batchsize, evicted)
    ELSE IF ~RedisAI_DagOpBatchingMatch(items[head], n)
      THEN BatchScan(items, head, j + 1, current_batchsize, evicted)
    ELSE IF WouldExceed(current_batchsize, n.inbatchsize, batchsize)
      THEN [evicted |-> evicted, current_batchsize |-> current_batchsize]
    ELSE BatchScan(items, head, j + 1, current_batchsize + n.inbatchsize,
                   Append(evicted, j))

\* What a pass decided: the positions to evict and the four flags of lines
\* 128-136; size is current_batchsize (the size of the selected item's
\* operation when no batch was scanned).
Pass(found, evicted, unb, run, retry, devc, size) ==
  [ found |-> found, evicted |-> evicted, do_unblock |-> unb, do_run |-> run,
    do_retry |-> retry, device_complete |-> devc, size |-> size ]

NoPass == Pass(FALSE, << >>, FALSE, FALSE, FALSE, FALSE, 0)

\* The value do_run has when the scan stops at a DAG-complete item: the
\* branch of line 174 leaves the variable as the items before left it.
RunFlagAtDagComplete(do_run) == do_run

\* Lines 138-294: the loop over the items from position i; do_run is the
\* value the variable holds when the iteration starts.  The result names the
\* positions to evict and the flags; found is FALSE when item ends NULL.
RECURSIVE ScanFrom(_, _, _)
ScanFrom(items, i, do_run) ==
  IF i > Len(items) THEN NoPass
  ELSE LET c == items[i] IN
    IF c.dagComplete
      THEN Pass(TRUE, <<i>>, TRUE, RunFlagAtDagComplete(do_run), FALSE, FALSE, c.inbatchsize)
    ELSE IF c.deviceComplete
      THEN Pass(TRUE, <<i>>, FALSE, FALSE, FALSE, TRUE, c.inbatchsize)
    ELSE IF ~c.currentOpReady
      THEN Pass(TRUE, <<i>>, FALSE, FALSE, TRUE, FALSE, c.inbatchsize)
    ELSE IF ~c.currentOpBatchable
      THEN Pass(TRUE, <<i>>, FALSE, TRUE, FALSE, FALSE, c.inbatchsize)
    ELSE IF StopSearching(c.inbatchsize, batchsize)
      THEN Pass(TRUE, <<i>>, FALSE, TRUE, FALSE, FALSE, c.inbatchsize)
    ELSE LET b == BatchScan(items, i, i + 1, c.inbatchsize, <<i>>) IN
      IF MinReached(b.current_batchsize, minbatchsize)
        THEN Pass(TRUE, b.evicted, FALSE, TRUE, FALSE, FALSE, b.current_batchsize)
        ELSE ScanFrom(items, i + 1, TRUE)

\* Lines 118-294 for one pass over the queue of dev.
Scan(dev) == ScanFrom(QueueInfo(dev), 1, FALSE)

\* ------------------------------------------------------------- the queue
\* queueEvict of every position in pos (lines 307-309).
Evict(q, pos) ==
  LET keep == {i \in 1..Len(q) : \A k \in 1..Len(pos) : pos[k] # i}
      F[i \in 0..Len(q)] ==
        IF i = 0 THEN << >>
        ELSE IF i \in keep THEN Append(F[i - 1], q[i]) ELSE F[i - 1]
  IN F[Len(q)]

\* The DAGs at the positions pos, in that order.
Picked(q, pos) == [k \in 1..Len(pos) |-> q[pos[k]]]

\* ------------------------------------------------------------ the threads
\* The configurations explored: the pool size, the batch sizes of the models
\* and the DAGs the clients submit.
Family(threads, bs, minbs, templates) ==
  [threads |-> threads, bs |-> bs, minbs |-> minbs, templates |-> templates]

Families ==
  { Family({1}, 0..MaxBatch, 0..MaxBatch, {TModel1, TChain, TScript}),
    Family({1}, {MaxBatch}, {0, MaxBatch}, {TModel1, TTwoDev, TWaitGpu}),
    Family({MaxThreads}, {MaxBatch}, {0, MaxBatch}, {TModel1, TScript}),
    Family({1}, 1..MaxBatch, {0, MaxBatch}, {TModel1, TModel2, TModel0, TOther}),
    Family({1}, {MaxBatch}, {0}, {TModel1, TIndep}) }

Idle == [ evicted |-> << >>, do_unblock |-> FALSE, do_run |-> FALSE,
          do_retry |-> FALSE, device_complete |-> FALSE, size |-> 0,
          sel |-> 0, errAtScan |-> {} ]

Waiters(dev) == {w \in Worker : w[1] = dev /\ wpc[w] = "wait"}

\* An unlock that leaves the mutex with its owner.
UnlockOutcomes_Keep(dev, t) == {run_queue_mutex[dev]}

\* pthread_mutex_unlock by thread t: the owner afterwards.  Unlocking a
\* mutex the thread does not own is undefined: the call fails and leaves
\* the mutex alone, or releases it under its owner.
UnlockOutcomes(dev, t) ==
  IF run_queue_mutex[dev] = t THEN {NoOne} ELSE {run_queue_mutex[dev], NoOne}

\* Line 116 / 433 and the test of line 118.
LoopTest(q) == IF Len(q) > 0 THEN "scan" ELSE "condwait"

InitSched ==
  /\ \E f \in Families :
       /\ perqueueThreadPoolSize \in f.threads
       /\ batchsize \in f.bs
       /\ minbatchsize \in f.minbs
       /\ dagOps \in [DagId -> f.templates]
  /\ enq = [d \in DagId |-> {}]
  /\ opsDone = [d \in DagId |-> {}]
  /\ dagError = [d \in DagId |-> FALSE]
  /\ dagRefCount = [d \in DagId |-> Cardinality(DagDevices(d))]
  /\ client = [d \in DagId |-> TRUE]
  /\ run_queue = [dev \in Dev |-> << >>]
  /\ run_queue_mutex = [dev \in Dev |-> NoOne]
  /\ wpc = [w \in Worker |->
              IF w[2] <= perqueueThreadPoolSize
                 /\ \E d \in DagId : w[1] \in DagDevices(d)
              THEN "start" ELSE "none"]
  /\ wloc = [w \in Worker |-> Idle]
  /\ unblocked = [d \in DagId |-> 0]
  /\ retired = [d \in DagId |-> {}]
  /\ released = [d \in DagId |-> {}]

cfgvars == << perqueueThreadPoolSize, batchsize, minbatchsize, dagOps, client >>

\* The command layer, one thread: the DAGs in order, each onto the queues of
\* its devices in the order of DevSeq.
NextEnqueue ==
  LET open == {d \in DagId : enq[d] # DagDevices(d)} IN
  IF open = {} THEN << 0, "" >>
  ELSE LET d == Min(open)
           k == Min({i \in 1..Len(DevSeq) : DevSeq[i] \in DagDevices(d) \ enq[d]})
       IN << d, DevSeq[k] >>

\* Enqueue: under the queue mutex push the DAG to the back and signal the
\* condition variable.  The DAG's reference count was set to the number of
\* its device queues when the DAG was created.
Enqueue ==
  LET d == NextEnqueue[1]
      dev == NextEnqueue[2]
  IN /\ d # 0
     /\ run_queue_mutex[dev] = NoOne
     /\ run_queue' = [run_queue EXCEPT ![dev] = Append(@, d)]
     /\ enq' = [enq EXCEPT ![d] = @ \cup {dev}]
     /\ IF Waiters(dev) = {} THEN wpc' = wpc
        ELSE \E w \in Waiters(dev) : wpc' = [wpc EXCEPT ![w] = "woken"]
     /\ UNCHANGED << cfgvars, opsDone, dagError, dagRefCount, run_queue_mutex, wloc, unblocked, retired, released >>

\* Line 107: the thread locks the queue mutex.
W_Start(w) ==
  /\ wpc[w] = "start"
  /\ run_queue_mutex[w[1]] = NoOne
  /\ run_queue_mutex' = [run_queue_mutex EXCEPT ![w[1]] = w]
  /\ wpc' = [wpc EXCEPT ![w] = "condwait"]
  /\ UNCHANGED << cfgvars, enq, opsDone, dagError, dagRefCount, run_queue, wloc, unblocked, retired, released >>

\* Line 109 with the mutex held: release it and block.
W_CondWait(w) ==
  /\ wpc[w] = "condwait"
  /\ run_queue_mutex[w[1]] = w
  /\ run_queue_mutex' = [run_queue_mutex EXCEPT ![w[1]] = NoOne]
  /\ wpc' = [wpc EXCEPT ![w] = "wait"]
  /\ UNCHANGED << cfgvars, enq, opsDone, dagError, dagRefCount, run_queue, wloc, unblocked, retired, released >>

\* Line 109 without the mutex held, which is undefined: the call fails at
\* once and the thread goes on to line 116 without the mutex, or the thread
\* blocks, the mutex left alone or released under its owner.
W_CondWaitUnlocked(w) ==
  /\ wpc[w] = "condwait"
  /\ run_queue_mutex[w[1]] # w
  /\ \/ /\ wpc' = [wpc EXCEPT ![w] = LoopTest(run_queue[w[1]])]
        /\ UNCHANGED run_queue_mutex
     \/ /\ wpc' = [wpc EXCEPT ![w] = "wait"]
        /\ \E o \in UnlockOutcomes(w[1], w) :
             run_queue_mutex' = [run_queue_mutex EXCEPT ![w[1]] = o]
  /\ UNCHANGED << cfgvars, enq, opsDone, dagError, dagRefCount, run_queue, wloc, unblocked, retired, released >>

\* Lines 109-118: the signalled thread takes the mutex again and reads the
\* length of the queue.
W_Wake(w) ==
  /\ wpc[w] = "woken"
  /\ run_queue_mutex[w[1]] = NoOne
  /\ run_queue_mutex' = [run_queue_mutex EXCEPT ![w[1]] = w]
  /\ wpc' = [wpc EXCEPT ![w] = LoopTest(run_queue[w[1]])]
  /\ UNCHANGED << cfgvars, enq, opsDone, dagError, dagRefCount, run_queue, wloc, unblocked, retired, released >>

\* Lines 296-303: the scan ended with item NULL; unlock and leave the loop
\* for line 109.
W_ScanNone(w) ==
  /\ wpc[w] = "scan"
  /\ ~Scan(w[1]).found
  /\ \E o \in UnlockOutcomes(w[1], w) :
       run_queue_mutex' = [run_queue_mutex EXCEPT ![w[1]] = o]
  /\ wpc' = [wpc EXCEPT ![w] = "condwait"]
  /\ UNCHANGED << cfgvars, enq, opsDone, dagError, dagRefCount, run_queue, wloc, unblocked, retired, released >>

\* What the thread keeps of a pass that evicts.
Local(dev, p) ==
  LET ev == Picked(run_queue[dev], p.evicted) IN
  [ evicted |-> ev, do_unblock |-> p.do_unblock, do_run |-> p.do_run,
    do_retry |-> p.do_retry, device_complete |-> p.device_complete,
    size |-> p.size, sel |-> p.evicted[1],
    errAtScan |-> {ev[k] : k \in {j \in 1..Len(ev) : dagError[ev[j]]}} ]

\* Lines 118-323 when do_run is set: evict, unlock, go to the execution call.
W_ScanRun(w) ==
  LET p == Scan(w[1]) IN
  /\ wpc[w] = "scan"
  /\ p.found /\ p.do_run
  /\ run_queue' = [run_queue EXCEPT ![w[1]] = Evict(@, p.evicted)]
  /\ wloc' = [wloc EXCEPT ![w] = Local(w[1], p)]
  /\ \E o \in UnlockOutcomes(w[1], w) :
       run_queue_mutex' = [run_queue_mutex EXCEPT ![w[1]] = o]
  /\ wpc' = [wpc EXCEPT ![w] = "run"]
  /\ UNCHANGED << cfgvars, enq, opsDone, dagError, dagRefCount, unblocked, retired, released >>

\* Lines 118-318 when do_run is clear: evict and go on to line 362 with the
\* mutex as it is.
W_ScanNoRun(w) ==
  LET p == Scan(w[1]) IN
  /\ wpc[w] = "scan"
  /\ p.found /\ ~p.do_run
  /\ run_queue' = [run_queue EXCEPT ![w[1]] = Evict(@, p.evicted)]
  /\ wloc' = [wloc EXCEPT ![w] = Local(w[1], p)]
  /\ wpc' = [wpc EXCEPT ![w] = "reflect"]
  /\ UNCHANGED << cfgvars, enq, opsDone, dagError, dagRefCount, run_queue_mutex, unblocked, retired, released >>

\* The DAGs of a sequence.
Range(s) == {s[k] : k \in 1..Len(s)}

\* The entries DAG d has on a device: in its queue and among the items its
\* workers have evicted.
Copies(dev, d) ==
  Cardinality({i \in 1..Len(run_queue[dev]) : run_queue[dev][i] = d})
  + Cardinality({x \in Worker \X (1..MaxDags + 1) :
                   /\ x[1][1] = dev
                   /\ x[2] <= Len(wloc[x[1]].evicted)
                   /\ wloc[x[1]].evicted[x[2]] = d})

\* The queue q with DAG d back at position k.
InsertAt(q, k, d) == SubSeq(q, 1, k - 1) \o << d >> \o SubSeq(q, k, Len(q))

\* Lines 118-323 by a thread that does not hold the mutex (it came back
\* from line 109 with an error) while the holder w2 is between its eviction
\* and the end of its pass.  The two threads access the queue at once, which
\* is undefined; of the outcomes this is the one where w walks the list as
\* it was before w2 unlinked its item, and selects that item as well.
W_ScanRaced(w) ==
  \E w2 \in Worker :
    LET dev == w[1]
        view == InsertAt(run_queue[dev], wloc[w2].sel, wloc[w2].evicted[1])
        p == ScanFrom([i \in 1..Len(view) |-> RedisAI_DagCurrentOpAndInfo(view[i], dev)],
                      1, FALSE)
        ev == Picked(view, p.evicted)
    IN /\ wpc[w] = "scan"
       /\ w2 # w /\ w2[1] = dev
       /\ run_queue_mutex[dev] = w2
       /\ wpc[w2] = "reflect"
       /\ Copies(dev, wloc[w2].evicted[1]) <= MaxCopies
       /\ unblocked[wloc[w2].evicted[1]] = 0
       /\ p.found
       /\ wloc[w2].evicted[1] \in Range(ev)
       /\ run_queue' = [run_queue EXCEPT ![dev] =
                          Evict(view, Append(p.evicted, wloc[w2].sel))]
       /\ wloc' = [wloc EXCEPT ![w] =
            [ evicted |-> ev, do_unblock |-> p.do_unblock, do_run |-> p.do_run,
              do_retry |-> p.do_retry, device_complete |-> p.device_complete,
              size |-> p.size, sel |-> p.evicted[1],
              errAtScan |-> {d \in Range(ev) : dagError[d]} ]]
       /\ IF p.do_run
          THEN \E o \in UnlockOutcomes(dev, w) :
                 run_queue_mutex' = [run_queue_mutex EXCEPT ![dev] = o]
          ELSE UNCHANGED run_queue_mutex
       /\ wpc' = [wpc EXCEPT ![w] = IF p.do_run THEN "run" ELSE "reflect"]
       /\ UNCHANGED << cfgvars, enq, opsDone, dagError, dagRefCount, unblocked, retired, released >>

\* RedisAI_DagRunSessionStep(rinfo, devicestr) under the DAG's mutex: the
\* operations with a result afterwards.  The current operation of the device
\* gets its result unless it fails; a DAG without a current operation whose
\* inputs are present is left as it is.
StepOpsDone(d, dev, fails) ==
  LET c == RedisAI_DagCurrentOpAndInfo(d, dev) IN
  IF c.currentOpReady /\ ~fails THEN opsDone[d] \cup {c.currentOp} ELSE opsDone[d]

\* The step sets the error flag when the operation fails.
StepError(d, dev, fails) ==
  dagError[d] \/ (fails /\ RedisAI_DagCurrentOpAndInfo(d, dev).currentOpReady)

\* The step gives up the device's reference to the DAG, once: when the
\* operation fails, or when it was the last operation of the device.
StepReleases(d, dev, fails) ==
  LET c == RedisAI_DagCurrentOpAndInfo(d, dev)
      pending == {i \in 1..Len(dagOps[d]) : dagOps[d][i].dev = dev /\ i \notin opsDone[d]}
  IN /\ c.currentOpReady
     /\ dev \notin released[d]
     /\ fails \/ pending = {c.currentOp}

\* Lines 323-332: the execution call on the evicted DAGs, batched or not;
\* errs are the DAGs whose operation fails.
W_Run(w) ==
  LET dev == w[1]
      ds == Range(wloc[w].evicted)
  IN /\ wpc[w] = "run"
     /\ \E errs \in SUBSET ds :
          /\ \A d \in errs : RedisAI_DagCurrentOpAndInfo(d, dev).currentOpReady
          /\ opsDone' = [d \in DagId |->
                IF d \in ds THEN StepOpsDone(d, dev, d \in errs) ELSE opsDone[d]]
          /\ dagError' = [d \in DagId |->
                IF d \in ds THEN StepError(d, dev, d \in errs) ELSE dagError[d]]
          /\ dagRefCount' = [d \in DagId |->
                IF d \in ds /\ StepReleases(d, dev, d \in errs)
                THEN dagRefCount[d] - 1 ELSE dagRefCount[d]]
          /\ released' = [d \in DagId |->
                IF d \in ds /\ StepReleases(d, dev, d \in errs)
                THEN released[d] \cup {dev} ELSE released[d]]
     /\ wpc' = [wpc EXCEPT ![w] = "relock"]
     /\ UNCHANGED << cfgvars, enq, run_queue, run_queue_mutex, wloc, unblocked, retired >>

\* Lines 356 and 376: the reference count is zero and the client is bound.
UnblockGuard(d) == dagRefCount[d] = 0 /\ client[d]

\* Lines 340-359: run_error ends as the error flag of the last DAG read.
RunError(l) == l.do_run /\ dagError[l.evicted[Len(l.evicted)]]

\* Lines 384-407: the queue after the retry disposition of DAG d.
RetryRequeue(q, d) ==
  IF Len(q) > 0 THEN << Head(q), d >> \o Tail(q) ELSE << d >>

\* queuePushFront of the DAGs ev[i], ev[i - 1], ..., ev[1], one after the
\* other (the loop of lines 416-420).
RECURSIVE PushFrontFrom(_, _, _)
PushFrontFrom(q, ev, i) ==
  IF i = 0 THEN q ELSE PushFrontFrom(<< ev[i] >> \o q, ev, i - 1)

\* A requeue that leaves the evicted DAGs at the front in reverse order.
ProgressRequeue_Forward(q, ev) == [i \in 1..Len(ev) |-> ev[Len(ev) + 1 - i]] \o q

\* Lines 411-421: the queue after the evicted DAGs are pushed to the front,
\* last first.
ProgressRequeue(q, ev) == PushFrontFrom(q, ev, Len(ev))

\* Line 425: the evicted items are freed.
Retires(l) == l.device_complete \/ l.do_unblock \/ RunError(l)

\* UnblockClient calls of lines 357 and 377 for DAG d in this pass.
UnblockCalls(l, d) ==
  (IF l.do_run
     THEN Cardinality({k \in 1..Len(l.evicted) :
                         l.evicted[k] = d /\ dagError[d] /\ UnblockGuard(d)})
     ELSE 0)
  + (IF l.do_unblock /\ l.evicted[1] = d /\ UnblockGuard(d) THEN 1 ELSE 0)

\* Lines 336-433: lock again after the execution call (or go on with the
\* mutex as it is after a pass that did not run), read the errors, unblock,
\* requeue, free, and read the length of the queue.
W_Reflect(w) ==
  LET dev == w[1]
      l == wloc[w]
      q0 == run_queue[dev]
      q1 == IF l.do_retry THEN RetryRequeue(q0, l.evicted[1]) ELSE q0
      q2 == IF l.do_run /\ ~RunError(l) THEN ProgressRequeue(q1, l.evicted) ELSE q1
  IN /\ wpc[w] \in {"relock", "reflect"}
     /\ wpc[w] = "relock" => run_queue_mutex[dev] = NoOne
     /\ run_queue_mutex' = IF wpc[w] = "relock"
                           THEN [run_queue_mutex EXCEPT ![dev] = w]
                           ELSE run_queue_mutex
     /\ unblocked' = [d \in DagId |-> unblocked[d] + UnblockCalls(l, d)]
     /\ retired' = [d \in DagId |->
                      IF Retires(l) /\ d \in Range(l.evicted)
                      THEN retired[d] \cup {dev} ELSE retired[d]]
     /\ run_queue' = [run_queue EXCEPT ![dev] = q2]
     /\ wloc' = [wloc EXCEPT ![w] = Idle]
     /\ wpc' = [wpc EXCEPT ![w] =
                  IF l.do_retry /\ Len(q0) = 0 THEN "sleep" ELSE LoopTest(q2)]
     /\ UNCHANGED << cfgvars, enq, opsDone, dagError, dagRefCount, released >>

\* Line 405 and on to line 433: the millisecond is over.
W_Sleep(w) ==
  /\ wpc[w] = "sleep"
  /\ wpc' = [wpc EXCEPT ![w] = LoopTest(run_queue[w[1]])]
  /\ UNCHANGED << cfgvars, enq, opsDone, dagError, dagRefCount, run_queue, run_queue_mutex, wloc, unblocked, retired, released >>

RedisAI_Run_ThreadMain(w) ==
  \/ W_Start(w)
  \/ W_CondWait(w)
  \/ W_CondWaitUnlocked(w)
  \/ W_Wake(w)
  \/ W_ScanNone(w)
  \/ W_ScanRun(w)
  \/ W_ScanNoRun(w)
  \/ W_ScanRaced(w)
  \/ W_Run(w)
  \/ W_Reflect(w)
  \/ W_Sleep(w)

\* ------------------------------------------------------------ the registry
Chars == {"a", "A"}
DevStr == UNION {[1..n -> Chars] : n \in 1..MaxDevLen}
Caller == 1..MaxCallers

\* toupper of <ctype.h> on the characters of the model.
toupper(ch) == CASE ch = "a" -> "A" [] OTHER -> ch

\* A copy of the string as it is.
strToUpper_Copy(input) == input

\* strToUpper (lines 55-62): every character of the copy is upper-cased.
strToUpper(input) == [i \in 1..Len(input) |-> toupper(input[i])]

NoCall == [devicestr |-> << >>, devicestr_ |-> << >>, info |-> 0, joined |-> 0]

\* AI_dictFind(run_queues, key): the entries under the key.
AI_dictFind(key) == {e \in run_queues : e.key = key}

\* AI_dictAdd(run_queues, key, val): the entry is added unless the key is
\* there already.
AI_dictAdd(key, val) ==
  IF AI_dictFind(key) = {} THEN run_queues \cup {[key |-> key, info |-> val]}
  ELSE run_queues

Returned(c, res, info, created) ==
  [caller |-> c, devicestr |-> cloc[c].devicestr, result |-> res, info |-> info,
   created |-> created]

InitReg ==
  /\ dictCreated = FALSE
  /\ run_queues = {}
  /\ infos = << >>
  /\ cpc = [c \in Caller |-> "idle"]
  /\ cloc = [c \in Caller |-> NoCall]
  /\ log = << >>

\* The module's start creates the registry.
CreateRunQueues ==
  /\ ~dictCreated
  /\ dictCreated' = TRUE
  /\ UNCHANGED << run_queues, infos, cpc, cloc, log, sched >>

\* A thread calls ensureRunQueue(devicestr, &run_queue_info).
E_Call(c, devicestr) ==
  /\ cpc[c] = "idle"
  /\ Len(log) + Cardinality({x \in Caller : cpc[x] # "idle"}) < MaxCalls
  /\ cpc' = [cpc EXCEPT ![c] = "called"]
  /\ cloc' = [cloc EXCEPT ![c] = [NoCall EXCEPT !.devicestr = devicestr]]
  /\ UNCHANGED << dictCreated, run_queues, infos, log, sched >>

\* Lines 68-70: there is no registry.
E_NoRegistry(c) ==
  /\ cpc[c] = "called"
  /\ ~dictCreated
  /\ log' = Append(log, Returned(c, "ERR", 0, FALSE))
  /\ cpc' = [cpc EXCEPT ![c] = "idle"]
  /\ cloc' = [cloc EXCEPT ![c] = NoCall]
  /\ UNCHANGED << dictCreated, run_queues, infos, sched >>

\* Lines 72-77 and 98-100: the device is in the registry.
E_Found(c) ==
  LET key == strToUpper(cloc[c].devicestr) IN
  /\ cpc[c] = "called"
  /\ dictCreated
  /\ \E e \in AI_dictFind(key) :
       log' = Append(log, Returned(c, "OK", e.info, FALSE))
  /\ cpc' = [cpc EXCEPT ![c] = "idle"]
  /\ cloc' = [cloc EXCEPT ![c] = NoCall]
  /\ UNCHANGED << dictCreated, run_queues, infos, sched >>

\* Lines 72-85: the device is not in the registry; a record is allocated.
E_Alloc(c) ==
  LET key == strToUpper(cloc[c].devicestr) IN
  /\ cpc[c] = "called"
  /\ dictCreated
  /\ AI_dictFind(key) = {}
  /\ infos' = Append(infos, [devicestr |-> key, threads |-> 0, freed |-> FALSE])
  /\ cloc' = [cloc EXCEPT ![c].devicestr_ = key, ![c].info = Len(infos) + 1]
  /\ cpc' = [cpc EXCEPT ![c] = "create"]
  /\ UNCHANGED << dictCreated, run_queues, log, sched >>

\* Lines 87-89: pthread_create starts one more worker.
E_Spawn(c) ==
  /\ cpc[c] = "create"
  /\ infos[cloc[c].info].threads < perqueueThreadPoolSize
  /\ infos' = [infos EXCEPT ![cloc[c].info].threads = @ + 1]
  /\ UNCHANGED << dictCreated, run_queues, cpc, cloc, log, sched >>

\* Lines 88-90 and 34-37: pthread_create fails; freeRunQueueInfo frees the
\* queue and the device string of the record.
E_SpawnFail(c) ==
  /\ cpc[c] = "create"
  /\ infos[cloc[c].info].threads < perqueueThreadPoolSize
  /\ infos' = [infos EXCEPT ![cloc[c].info].freed = TRUE]
  /\ cpc' = [cpc EXCEPT ![c] = "free"]
  /\ UNCHANGED << dictCreated, run_queues, cloc, log, sched >>

\* Lines 40-45 for a handle pthread_create never filled in: joining it is
\* undefined; the call returns and the loop goes on.
E_JoinReturns(c) ==
  /\ cpc[c] = "free"
  /\ cloc[c].joined < perqueueThreadPoolSize
  /\ cloc[c].joined >= infos[cloc[c].info].threads
  /\ cloc' = [cloc EXCEPT ![c].joined = @ + 1]
  /\ UNCHANGED << dictCreated, run_queues, infos, cpc, log, sched >>

\* Lines 40-45: pthread_join of a worker that was started waits for it to
\* return, and RedisAI_Run_ThreadMain never returns; the join of a handle
\* that was never filled in may wait without end as well.
E_JoinBlocks(c) ==
  /\ cpc[c] = "free"
  /\ cloc[c].joined < perqueueThreadPoolSize
  /\ cpc' = [cpc EXCEPT ![c] = "joining"]
  /\ UNCHANGED << dictCreated, run_queues, infos, cloc, log, sched >>

\* Lines 47-50 and 91: the record is freed and the call returns the error.
E_FreeReturn(c) ==
  /\ cpc[c] = "free"
  /\ cloc[c].joined = perqueueThreadPoolSize
  /\ log' = Append(log, Returned(c, "ERR", cloc[c].info, TRUE))
  /\ cpc' = [cpc EXCEPT ![c] = "idle"]
  /\ cloc' = [cloc EXCEPT ![c] = NoCall]
  /\ UNCHANGED << dictCreated, run_queues, infos, sched >>

\* Lines 94-100: every worker was started; the record enters the registry.
E_Add(c) ==
  /\ cpc[c] = "create"
  /\ infos[cloc[c].info].threads = perqueueThreadPoolSize
  /\ run_queues' = AI_dictAdd(cloc[c].devicestr_, cloc[c].info)
  /\ log' = Append(log, Returned(c, "OK", cloc[c].info, TRUE))
  /\ cpc' = [cpc EXCEPT ![c] = "idle"]
  /\ cloc' = [cloc EXCEPT ![c] = NoCall]
  /\ UNCHANGED << dictCreated, infos, sched >>

ensureRunQueue(c) ==
  \/ \E devicestr \in DevStr : E_Call(c, devicestr)
  \/ E_NoRegistry(c)
  \/ E_Found(c)
  \/ E_Alloc(c)
  \/ E_Spawn(c)
  \/ E_SpawnFail(c)
  \/ E_JoinReturns(c)
  \/ E_JoinBlocks(c)
  \/ E_FreeReturn(c)
  \/ E_Add(c)

\* ------------------------------------------------------- specifications
\* The workers and the command layer, the queues of both devices in place.
Init ==
  /\ InitSched
  /\ dictCreated = TRUE
  /\ run_queues = {}
  /\ infos = << >>
  /\ cpc = [c \in Caller |-> "idle"]
  /\ cloc = [c \in Caller |-> NoCall]
  /\ log = << >>

Next ==
  \/ Enqueue /\ UNCHANGED reg
  \/ \E w \in Worker : RedisAI_Run_ThreadMain(w) /\ UNCHANGED reg

Spec == Init /\ [][Next]_vars

\* The scheduler's variables while the registry is looked at.
InitIdleSched ==
  /\ perqueueThreadPoolSize \in 1..MaxThreads
  /\ batchsize = 0
  /\ minbatchsize = 0
  /\ dagOps = [d \in DagId |-> << >>]
  /\ enq = [d \in DagId |-> {}]
  /\ opsDone = [d \in DagId |-> {}]
  /\ dagError = [d \in DagId |-> FALSE]
  /\ dagRefCount = [d \in DagId |-> 0]
  /\ client = [d \in DagId |-> TRUE]
  /\ run_queue = [dev \in Dev |-> << >>]
  /\ run_queue_mutex = [dev \in Dev |-> NoOne]
  /\ wpc = [w \in Worker |-> "none"]
  /\ wloc = [w \in Worker |-> Idle]
  /\ unblocked = [d \in DagId |-> 0]
  /\ retired = [d \in DagId |-> {}]
  /\ released = [d \in DagId |-> {}]

\* ensureRunQueue called from several threads at once.
RegInit == InitIdleSched /\ InitReg

RegNext ==
  \/ CreateRunQueues
  \/ \E c \in Caller : ensureRunQueue(c)

RegSpec == RegInit /\ [][RegNext]_vars

\* ensureRunQueue called from one thread, one call after the other.
SeqNext ==
  \/ CreateRunQueues
  \/ ensureRunQueue(1)

SeqSpec == RegInit /\ [][SeqNext]_vars

\* The calling thread is scheduled as long as it can take a step.
SeqFairSpec == SeqSpec /\ WF_vars(ensureRunQueue(1))

\* The workers and the command layer under a fair scheduler: a thread that
\* can take a step takes one.
FairSpec ==
  /\ Spec
  /\ WF_vars(Enqueue /\ UNCHANGED reg)
  /\ \A w \in Worker : WF_vars(RedisAI_Run_ThreadMain(w) /\ UNCHANGED reg)

\* ------------------------------------------------------------- properties
AllOps(d) == 1..Len(dagOps[d])

\* The inspection result of the first evicted DAG of worker w, and the sum
\* of the batch dimensions of the operations the execution call is given.
HeadInfo(w) == RedisAI_DagCurrentOpAndInfo(wloc[w].evicted[1], w[1])

RECURSIVE SumSizes(_, _)
SumSizes(ev, dev) ==
  IF ev = << >> THEN 0
  ELSE RedisAI_DagCurrentOpAndInfo(Head(ev), dev).inbatchsize + SumSizes(Tail(ev), dev)

\* Two device strings that differ at most in the case of their letters.
SameIgnoringCase(a, b) ==
  /\ Len(a) = Len(b)
  /\ \A i \in 1..Len(a) : a[i] = b[i] \/ {a[i], b[i]} = {"a", "A"}

\* C1: at-most-once unblock.  For every DAG the UnblockClient calls of all
\* workers, after an execution call with an error and at a complete DAG
\* together, number at most one.
C1_AtMostOnceUnblock == \A d \in DagId : unblocked[d] <= 1

\* C2: eventual completion.  Under a fair scheduler, when no operation sets
\* the error flag, every operation of every DAG gets its result and the
\* client of every DAG is unblocked, once.
C2_EventualCompletion ==
  ([](\A d \in DagId : ~dagError[d]))
    => \A d \in DagId : <>[](unblocked[d] = 1 /\ opsDone[d] = AllOps(d))

\* C3: refcount conservation.  The reference count of a DAG is the number of
\* device queues that have not retired it yet: it never is negative, and it
\* is zero once the worker of every device of the DAG has retired the DAG.
C3_RefcountConservation ==
  \A d \in DagId :
    /\ dagRefCount[d] >= 0
    /\ retired[d] = DagDevices(d) => dagRefCount[d] = 0

\* C4 as stated: every execution call on a batchable operation has an
\* aggregate batch size S with S <= batchsize, and minbatchsize = 0 or
\* S >= minbatchsize.
C4_BatchBound ==
  \A w \in Worker :
    (wpc[w] = "run" /\ HeadInfo(w).currentOpReady /\ HeadInfo(w).currentOpBatchable)
      => LET S == SumSizes(wloc[w].evicted, w[1]) IN
         S <= batchsize /\ (minbatchsize = 0 \/ S >= minbatchsize)

\* C4 amended: an execution call on a batchable operation whose first
\* operation has a batch dimension of 0, or one of batchsize or more, is
\* given that operation alone, whatever batchsize and minbatchsize are; any
\* other execution call on a batchable operation has an aggregate batch size
\* S with S <= batchsize, and minbatchsize = 0 or S >= minbatchsize.
C4_BatchBoundAmended ==
  \A w \in Worker :
    (wpc[w] = "run" /\ HeadInfo(w).currentOpReady /\ HeadInfo(w).currentOpBatchable)
      => LET S == SumSizes(wloc[w].evicted, w[1])
             h == HeadInfo(w).inbatchsize
         IN IF h = 0 \/ h >= batchsize
            THEN Len(wloc[w].evicted) = 1
            ELSE S <= batchsize /\ (minbatchsize = 0 \/ S >= minbatchsize)

\* A batched execution call of two DAGs that fills batchsize exactly and
\* reaches a minbatchsize that is set.
C4_Witness ==
  \E w \in Worker :
    /\ wpc[w] = "run"
    /\ HeadInfo(w).currentOpReady /\ HeadInfo(w).currentOpBatchable
    /\ Len(wloc[w].evicted) = 2
    /\ minbatchsize > 0
    /\ SumSizes(wloc[w].evicted, w[1]) = batchsize

\* C5: error stickiness.  No execution call is made with a DAG whose error
\* flag was set when the worker chose it.
C5_ErrorStickiness ==
  \A w \in Worker : wpc[w] = "run" => wloc[w].errAtScan = {}

\* C6: device normalization and idempotence.  In a sequence of calls, two
\* calls that return OK for device strings equal up to case return the same
\* record, the later one creates nothing, and the registry holds at most one
\* entry for device strings equal up to case.
C6_Normalization ==
  /\ \A i, j \in 1..Len(log) :
       (i < j /\ log[i].result = "OK" /\ log[j].result = "OK"
          /\ SameIgnoringCase(log[i].devicestr, log[j].devicestr))
         => (log[j].info = log[i].info /\ ~log[j].created)
  /\ \A e1, e2 \in run_queues : SameIgnoringCase(e1.key, e2.key) => e1 = e2

\* Two calls returned OK for device strings that differ in case only, the
\* first of them having created the record.
C6_Witness ==
  \E i, j \in 1..Len(log) :
    /\ i < j
    /\ log[i].result = "OK" /\ log[j].result = "OK"
    /\ log[i].created
    /\ log[i].devicestr # log[j].devicestr
    /\ SameIgnoringCase(log[i].devicestr, log[j].devicestr)
    /\ log[i].info = log[j].info

\* C7: ensureRunQueue is thread-safe.  Called from several threads at once
\* for device strings equal up to case, one record with one pool of workers
\* is created and every caller gets that record.
C7_ThreadSafe ==
  /\ \A i, j \in 1..Len(log) :
       (log[i].result = "OK" /\ log[j].result = "OK"
          /\ SameIgnoringCase(log[i].devicestr, log[j].devicestr))
         => log[i].info = log[j].info
  /\ \A i, j \in 1..Len(infos) :
       (infos[i].devicestr = infos[j].devicestr
          /\ infos[i].threads > 0 /\ infos[j].threads > 0) => i = j

\* C8: spawn-failure handling.  A call in which a worker could not be
\* created ends, with an error; no worker the call started is left behind
\* and the registry has no entry for the record.
C8_SpawnFailure ==
  /\ (cpc[1] = "free") ~> (cpc[1] = "idle")
  /\ [](\A i \in 1..Len(log) :
          (log[i].result = "ERR" /\ log[i].created)
            => /\ infos[log[i].info].threads = 0
               /\ \A e \in run_queues : e.info # log[i].info)

\* C9: a worker that calls pthread_cond_wait holds the queue mutex, on every
\* path to the call.
C9_WaitHoldsMutex ==
  \A w \in Worker : wpc[w] = "condwait" => run_queue_mutex[w[1]] = w

\* C10: an execution call is made only when the scan found the current
\* operation of the selected item ready, never for an item the scan found
\* DAG-complete, device-complete or not ready.
C10_RunOnlyWhenReady ==
  \A w \in Worker :
    wpc[w] = "run" =>
      /\ ~wloc[w].do_unblock /\ ~wloc[w].device_complete /\ ~wloc[w].do_retry
      /\ HeadInfo(w).currentOpReady

\* C11: a pass that evicts takes the item at the front of the queue; when
\* the batch of the front item stays below minbatchsize the pass evicts
\* nothing and the worker goes to wait.
C11_HeadIncluded ==
  \A w \in Worker : wloc[w].evicted # << >> => wloc[w].sel = 1

\* C12: after an execution call on a batch of several DAGs every DAG gets
\* its own disposition: a DAG whose error flag is set is retired from the
\* device and is not in the queue afterwards, a DAG whose error flag is
\* clear is in the queue afterwards and is not retired.
C12_PerDagDisposition ==
  [][\A w \in Worker :
       (wpc[w] = "relock" /\ wpc'[w] # "relock" /\ Len(wloc[w].evicted) > 1)
         => \A d \in Range(wloc[w].evicted) :
              IF dagError[d]
              THEN d \notin Range(run_queue'[w[1]]) /\ w[1] \in retired'[d]
              ELSE d \in Range(run_queue'[w[1]]) /\ retired'[d] = retired[d]]_vars

\* C13: the device-complete disposition removes the DAG from the queue
\* without requeueing it, and a DAG whose last retiring worker takes this
\* disposition has its client unblocked.
C13_DeviceCompleteDisposition ==
  [][\A w \in Worker :
       (wpc[w] = "reflect" /\ wpc'[w] # "reflect" /\ wloc[w].device_complete)
         => LET d == wloc[w].evicted[1] IN
            /\ run_queue'[w[1]] = run_queue[w[1]]
            /\ w[1] \in retired'[d]
            /\ retired'[d] = DagDevices(d) => unblocked'[d] >= 1]_vars

\* C14: the retry disposition puts the DAG back one slot behind the place it
\* was taken from, the item that was directly behind it now directly in
\* front of it, the other items in their order; with no other item in the
\* queue the DAG is back alone at the front.
C14_RetryRequeue ==
  [][\A w \in Worker :
       (wpc[w] = "reflect" /\ wpc'[w] # "reflect" /\ wloc[w].do_retry)
         => LET d == wloc[w].evicted[1]
                k == wloc[w].sel
                q0 == run_queue[w[1]]
                q1 == run_queue'[w[1]]
            IN IF Len(q0) = 0 THEN q1 = << d >>
               ELSE /\ Len(q1) = Len(q0) + 1
                    /\ k + 1 <= Len(q1)
                    /\ q1[k + 1] = d
                    /\ q1[k] = q0[k]
                    /\ Evict(q1, << k + 1 >>) = q0]_vars

\* C15: no busy-waiting.  A worker that takes the retry disposition while
\* every DAG of its queue waits for the result of another device sleeps or
\* waits on the condition variable before it scans again.
C15_NoBusyWaiting ==
  [][\A w \in Worker :
       (wpc[w] = "reflect" /\ wpc'[w] # "reflect" /\ wloc[w].do_retry
          /\ \A i \in 1..Len(run_queue'[w[1]]) :
               LET c == RedisAI_DagCurrentOpAndInfo(run_queue'[w[1]][i], w[1])
               IN ~c.dagComplete /\ ~c.deviceComplete /\ ~c.currentOpReady)
         => wpc'[w] \in {"sleep", "condwait", "wait"}]_vars

\* C16: progress requeue.  After an execution call that left no error flag
\* set, the evicted DAGs are at the front of the queue, once each, in the
\* order they were evicted in, and the items that were in the queue follow
\* in their order.
C16_ProgressRequeue ==
  [][\A w \in Worker :
       (wpc[w] = "relock" /\ wpc'[w] # "relock"
          /\ \A d \in Range(wloc[w].evicted) : ~dagError[d])
         => LET ev == wloc[w].evicted
                q0 == run_queue[w[1]]
                q1 == run_queue'[w[1]]
            IN /\ Len(q1) = Len(ev) + Len(q0)
               /\ \A i \in 1..Len(ev) : q1[i] = ev[i]
               /\ \A i \in 1..Len(q0) : q1[Len(ev) + i] = q0[i]]_vars

\* A worker about to requeue two DAGs after an execution call without
\* error, with another DAG in the queue.
C16_Witness ==
  \E w \in Worker :
    /\ wpc[w] = "relock"
    /\ run_queue_mutex[w[1]] = NoOne
    /\ Len(wloc[w].evicted) = 2
    /\ \A d \in Range(wloc[w].evicted) : ~dagError[d]
    /\ Len(run_queue[w[1]]) > 0

C18_ExclusiveOwnership ==
  \A w \in Worker : \A d \in Range(wloc[w].evicted) :
    /\ d \notin Range(run_queue[w[1]])
    /\ \A w2 \in Worker :
         (w2 # w /\ w2[1] = w[1]) => d \notin Range(wloc[w2].evicted)

\* C19: queue-entry conservation.  A DAG enqueued on a device has at most
\* one entry there, in the queue or in a worker's evicted set; it has one as
\* long as the device has not retired it; it is retired only when its error
\* flag is set or its operations on the device are done; and once retired
\* it has no entry on the device any more.
C19_EntryConservation ==
  \A d \in DagId : \A dev \in DagDevices(d) :
    /\ Copies(dev, d) <= 1
    /\ (dev \in enq[d] /\ dev \notin retired[d]) => Copies(dev, d) = 1
    /\ dev \in retired[d] =>
         /\ dagError[d] \/ RedisAI_DagCurrentOpAndInfo(d, dev).deviceComplete
         /\ Copies(dev, d) = 0

\* C20: no lost wakeup.  There is no state in which a scan of a device's
\* queue would find an item to act on while the device has threads, every
\* one of them is blocked in pthread_cond_wait and none has been signalled.
C20_NoLostWakeup ==
  \A dev \in Dev :
    LET ws == {w \in Worker : w[1] = dev /\ wpc[w] # "none"} IN
    ~ /\ ws # {}
      /\ \A w \in ws : wpc[w] = "wait"
      /\ run_queue[dev] # << >>
      /\ Scan(dev).found

====
